---- MODULE Spec2Model ----
(***************************************************************************)
(* A model of the lightcurve pipelines of ramjet / qusi.                   *)
(*                                                                         *)
(* Every operation of the repository that is modelled here is a call on an *)
(* object: `self` holds the fields of the object, `op` the operation that  *)
(* is being called, `args` its arguments, `pc` the position of the call    *)
(* ("call" before the body ran, "return" / "raise" after it) and `ret` the *)
(* value returned or the exception raised.  `retrying` is the state of the *)
(* `retrying` decorator that wraps the catalogue operations: the number of *)
(* the attempt and the outcome of the last attempt.  `Observations` holds  *)
(* the process-wide limits of astroquery.mast.Observations.                *)
(*                                                                         *)
(* One specification per operation: its Init draws the inputs, its actions *)
(* run the body of the operation.                                          *)
(***************************************************************************)
EXTENDS Integers, Sequences, FiniteSets, TLC

VARIABLES pc, op, self, args, ret, retrying, Observations

vars == <<pc, op, self, args, ret, retrying, Observations>>

\* Python's None.
None == "None"

\* Observations.TIMEOUT and Observations.PAGESIZE as astroquery sets them.
AstroqueryDefaults == [TIMEOUT |-> 600, PAGESIZE |-> 50000]

\* A plausible bug: only one of the two limits set.
SetTimeoutOnly(observations) == [observations EXCEPT !.TIMEOUT = 1200]

\* TessTransitLightcurveLabelPerTimeStepDatabase.__init__: the two assignments
\* to the class attributes of Observations.
SetAstroqueryLimits(observations) ==
    [observations EXCEPT !.TIMEOUT = 1200, !.PAGESIZE = 10000]

(***************************************************************************)
(* Bounds of the model.                                                    *)
(***************************************************************************)
\* Longest lightcurve drawn as an input.
MaxLen == 4
\* Flux values are drawn from 0..MaxFlux.
MaxFlux == 2
\* time_steps_per_example is drawn from 1..MaxTimeSteps.
MaxTimeSteps == 5
\* File paths are drawn from 1..MaxPaths.
MaxPaths == 3
\* Longest dataset drawn as an input of repeat_dataset_to_size.
MaxDataset == 3
\* Largest size asked of repeat_dataset_to_size.
MaxSize == 7
\* Most positive and most negative training examples given to
\* get_ratio_enforced_dataset, and the largest numerator of the ratio.
MaxPositive == 49
MaxNegative == 2
MaxRatio == 49
\* Most example paths given to
\* get_training_and_validation_datasets_for_file_paths.
MaxExamplePaths == 6
\* Transit epochs are drawn from -MaxEpoch..MaxEpoch half hours around the
\* start of BTJD, durations from 1..MaxDurationHours hours, periods from
\* 0..MaxPeriod half hours; a meta data frame has at most MaxPlanets rows and
\* a lightcurve a time step every half hour from -MaxTime to MaxTime.
MaxEpoch == 2
MaxDurationHours == 2
MaxPeriod == 3
MaxPlanets == 2
MaxTime == 5
\* A FITS table has at most MaxSamples rows, of values NaN or 1..MaxFitsValue.
MaxSamples == 3
MaxFitsValue == 2
\* The service fails at most MaxFailures times in a row with a connection
\* error; the values of a row of the catalogue are drawn from 1..MaxCoordinate.
MaxFailures == 3
MaxCoordinate == 2
\* infer_session is given at most MaxInferDatasets datasets of at most
\* MaxInferLength light curves drawn from 1..MaxLightCurve, and a batch size
\* from 1..MaxBatchSize.
MaxInferDatasets == 2
MaxInferLength == 3
MaxLightCurve == 2
MaxBatchSize == 2

\* A dataset given to PyMapper has at most MaxElements elements, drawn from
\* 0..MaxElement.
MaxElements == 4
MaxElement == 1

\* Before a TESS data object is constructed Observations.TIMEOUT is one of
\* 600 * (1..MaxTimeout) and Observations.PAGESIZE one of 10000 * (1..MaxPageSize).
MaxTimeout == 2
MaxPageSize == 5
\* The lightcurve directory holds at most MaxFiles files.
MaxFiles == 1
\* A table of single-sector observations has at most MaxObservations rows.
MaxObservations == 2
\* A table of multi-sector observations has at most MaxRangeRows rows, of
\* targets 1..MaxTargets and sector range lengths 1..MaxRange.
MaxRangeRows == 3
MaxTargets == 2
MaxRange == 2

\* shuffle_in_unison is given arrays of at most MaxShuffleLength values, the
\* first of values 1..MaxPaths, the second of labels 0..MaxLabel.
MaxShuffleLength == 3
MaxLabel == 1
\* remove_random_values is also given the lightcurves 1, 2, ..., n for n up to
\* MaxRemoveLength.
MaxRemoveLength == 10

\* preprocess_and_augment_lightcurve is given lightcurves of at most
\* MaxPipelineLength values, and a file holds at most MaxFileLength values.
MaxPipelineLength == 3
MaxFileLength == 2

\* Digits of the significand of a binary64 float.
Precision == 53

\* max_values_to_remove of remove_random_values.
MaxValuesToRemove == 10

\* The number of worker processes the tests give PyMapper.
NumberOfParallelCalls == 4

(***************************************************************************)
(* Helpers: numpy arrays are sequences, indexed from 1 here and from 0 in  *)
(* the source.                                                             *)
(***************************************************************************)
Min(a, b) == IF a <= b THEN a ELSE b

\* All arrays over S of length lo..hi.
Arrays(S, lo, hi) == UNION {[1..k -> S] : k \in lo..hi}

\* lightcurve[start:stop] with 0 <= start <= stop (numpy clips stop to the length).
Slice(array, start, stop) == SubSeq(array, start + 1, Min(stop, Len(array)))

\* np.random.randint(low, high): the integers low <= x < high.
RandInt(low, high) == low..(high - 1)

Fluxes == 0..MaxFlux

Lightcurves == Arrays(Fluxes, 0, MaxLen)

(***************************************************************************)
(* LightcurveDatabase.make_uniform_length                                  *)
(***************************************************************************)
\* A plausible bug of the padding: mode='edge' repeats the last value.
RECURSIVE PadEdge(_, _, _)
PadEdge(padded, original, pad) ==
    IF pad = 0 THEN padded
    ELSE PadEdge(Append(padded, original[Len(original)]), original, pad - 1)

\* np.pad(lightcurve, (0, pad), mode='wrap'): numpy appends, until the pad is
\* used up, a chunk of at most one period taken from the start of the original.
RECURSIVE PadWrap(_, _, _)
PadWrap(padded, original, pad) ==
    IF pad = 0 THEN padded
    ELSE LET chunk == SubSeq(original, 1, Min(Len(original), pad))
         IN  PadWrap(padded \o chunk, original, pad - Len(chunk))

\* The clipping branch, for the start the random generator drew.
ClipToLength(lightcurve, time_steps, start_slice) ==
    Slice(lightcurve, start_slice, start_slice + time_steps)

\* The padding branch.
RepeatToLength(lightcurve, time_steps) ==
    LET elements_to_repeat == time_steps - Len(lightcurve)
    IN  PadWrap(lightcurve, lightcurve, elements_to_repeat)

InitMakeUniformLength ==
    /\ op = "make_uniform_length"
    /\ pc = "call"
    /\ self \in [time_steps_per_example : 1..MaxTimeSteps]
    /\ args \in [lightcurve : Lightcurves]
    /\ ret = None
    /\ retrying = None
    /\ Observations = AstroqueryDefaults

\* lightcurve.shape[0] > time_steps_per_example: a random contiguous slice.
make_uniform_length_clip ==
    /\ pc = "call" /\ op = "make_uniform_length"
    /\ Len(args.lightcurve) > self.time_steps_per_example
    /\ \E start_slice \in RandInt(0, Len(args.lightcurve) - self.time_steps_per_example) :
          ret' = ClipToLength(args.lightcurve, self.time_steps_per_example, start_slice)
    /\ pc' = "return"
    /\ UNCHANGED <<op, self, args, retrying, Observations>>

\* otherwise: the lightcurve followed by wrapped values.
make_uniform_length_pad ==
    /\ pc = "call" /\ op = "make_uniform_length"
    /\ Len(args.lightcurve) <= self.time_steps_per_example
    /\ Len(args.lightcurve) > 0
    /\ ret' = RepeatToLength(args.lightcurve, self.time_steps_per_example)
    /\ pc' = "return"
    /\ UNCHANGED <<op, self, args, retrying, Observations>>

\* np.pad cannot wrap an empty axis: ValueError.
make_uniform_length_empty ==
    /\ pc = "call" /\ op = "make_uniform_length"
    /\ Len(args.lightcurve) <= self.time_steps_per_example
    /\ Len(args.lightcurve) = 0
    /\ ret' = "ValueError"
    /\ pc' = "raise"
    /\ UNCHANGED <<op, self, args, retrying, Observations>>

NextMakeUniformLength ==
    \/ make_uniform_length_clip
    \/ make_uniform_length_pad
    \/ make_uniform_length_empty

SpecMakeUniformLength == InitMakeUniformLength /\ [][NextMakeUniformLength]_vars

\* C1: for every non-empty lightcurve of length n, make_uniform_length returns
\* exactly time_steps_per_example (T) values; when n > T they are a contiguous
\* slice input[s : s+T] with 0 <= s and s+T <= n; when n <= T they are the
\* input followed by wrapped values, result[i] = input[i mod n] for i in 0..T-1.
C1_UniformLength ==
    (op = "make_uniform_length" /\ pc # "call" /\ Len(args.lightcurve) > 0) =>
        LET input == args.lightcurve
            n == Len(input)
            T == self.time_steps_per_example
        IN  /\ pc = "return"
            /\ Len(ret) = T
            /\ n > T => \E s \in 0..(n - T) :
                            \A i \in 0..(T - 1) : ret[i + 1] = input[s + i + 1]
            /\ n <= T => \A i \in 0..(T - 1) : ret[i + 1] = input[(i % n) + 1]

\* A lightcurve shorter than T was padded over more than one period.
C1_Witness_Pad ==
    /\ op = "make_uniform_length" /\ pc = "return"
    /\ Len(args.lightcurve) = 2 /\ self.time_steps_per_example = 5
    /\ args.lightcurve[1] # args.lightcurve[2]

(***************************************************************************)
(* tf.data.Dataset: a finite dataset is the sequence of its elements.      *)
(***************************************************************************)
\* dataset.take(count), count >= 0.
Take(dataset, count) == SubSeq(dataset, 1, Min(count, Len(dataset)))

\* dataset.skip(count), count >= 0.
Skip(dataset, count) == SubSeq(dataset, Min(count, Len(dataset)) + 1, Len(dataset))

\* dataset.concatenate(other).
Concatenate(dataset, other) == dataset \o other

\* dataset.repeat(count), count >= 0: the dataset count times over.
RECURSIVE Repeat(_, _)
Repeat(dataset, count) ==
    IF count = 0 THEN <<>> ELSE dataset \o Repeat(dataset, count - 1)

\* math.ceil(a / b) for integers a >= 0, b > 0 (the float quotient of two
\* small integers lies on the same side of every integer as the exact one).
CeilDiv(a, b) == (a + b - 1) \div b

(***************************************************************************)
(* LightcurveDatabase.repeat_dataset_to_size                               *)
(***************************************************************************)
\* A plausible bug: rounding the number of repetitions down.
TimesToRepeatFloor(size, current_size) == size \div current_size

TimesToRepeat(size, current_size) == CeilDiv(size, current_size)

\* The body of repeat_dataset_to_size, for a non-empty dataset.
RepeatDatasetToSize(dataset, size) ==
    LET current_size == Len(dataset)
        times_to_repeat == TimesToRepeat(size, current_size)
    IN  Take(Repeat(dataset, times_to_repeat), size)

\* File paths are numbered.
Paths == 1..MaxPaths

InitRepeatDatasetToSize ==
    /\ op = "repeat_dataset_to_size"
    /\ pc = "call"
    /\ self = None
    /\ args \in [dataset : Arrays(Paths, 0, MaxDataset), size : 0..MaxSize]
    /\ ret = None
    /\ retrying = None
    /\ Observations = AstroqueryDefaults

repeat_dataset_to_size ==
    /\ pc = "call" /\ op = "repeat_dataset_to_size"
    /\ Len(args.dataset) > 0
    /\ ret' = RepeatDatasetToSize(args.dataset, args.size)
    /\ pc' = "return"
    /\ UNCHANGED <<op, self, args, retrying, Observations>>

\* size / current_size with an empty dataset: ZeroDivisionError.
repeat_dataset_to_size_empty ==
    /\ pc = "call" /\ op = "repeat_dataset_to_size"
    /\ Len(args.dataset) = 0
    /\ ret' = "ZeroDivisionError"
    /\ pc' = "raise"
    /\ UNCHANGED <<op, self, args, retrying, Observations>>

NextRepeatDatasetToSize ==
    \/ repeat_dataset_to_size
    \/ repeat_dataset_to_size_empty

SpecRepeatDatasetToSize == InitRepeatDatasetToSize /\ [][NextRepeatDatasetToSize]_vars

\* C7: for a dataset of n >= 1 elements and any size >= 0,
\* repeat_dataset_to_size returns exactly size elements, the i-th being the
\* original element at index i mod n; for size < n that is a prefix.
C7_RepeatToSize ==
    (op = "repeat_dataset_to_size" /\ pc # "call" /\ Len(args.dataset) >= 1) =>
        LET n == Len(args.dataset)
        IN  /\ pc = "return"
            /\ Len(ret) = args.size
            /\ \A i \in 0..(args.size - 1) : ret[i + 1] = args.dataset[(i % n) + 1]

\* A dataset repeated more than once and cut in the middle of a repetition.
C7_Witness_Truncated ==
    /\ op = "repeat_dataset_to_size" /\ pc = "return"
    /\ Len(args.dataset) = 3 /\ args.size = 7
    /\ args.dataset[1] # args.dataset[2]

(***************************************************************************)
(* Python floats are IEEE-754 binary64.  A positive float is modelled as   *)
(* [sig, exp]: the bits of its significand, most significant first, and    *)
(* the exponent of the last bit, so that its value is sig * 2^exp.  The     *)
(* operations are functions: their arguments are values.                   *)
(***************************************************************************)
Bit == {0, 1}

FloatValues == [sig : Seq(Bit), exp : Int]

\* The binary digits of a natural number, most significant first.
BitsOf[n \in Nat] == IF n = 0 THEN <<>> ELSE Append(BitsOf[n \div 2], n % 2)

\* The natural number a sequence of binary digits stands for.
ValueOf[bits \in Seq(Bit)] ==
    IF bits = <<>> THEN 0
    ELSE 2 * ValueOf[SubSeq(bits, 1, Len(bits) - 1)] + bits[Len(bits)]

\* bits + 1.
Increment[bits \in Seq(Bit)] ==
    IF bits = <<>> THEN <<1>>
    ELSE IF bits[Len(bits)] = 0 THEN SubSeq(bits, 1, Len(bits) - 1) \o <<1>>
    ELSE Append(Increment[SubSeq(bits, 1, Len(bits) - 1)], 0)

\* Rounding of an exact result to Precision bits, to nearest, ties to even.
\* sticky: the exact result has non-zero digits beyond those of sig.
RoundToPrecision[sig \in Seq(Bit), exp \in Int, sticky \in BOOLEAN] ==
    IF Len(sig) <= Precision THEN [sig |-> sig, exp |-> exp]
    ELSE LET kept == SubSeq(sig, 1, Precision)
             guard == sig[Precision + 1]
             beyond == sticky \/ \E i \in (Precision + 2)..Len(sig) : sig[i] = 1
             round_up == guard = 1 /\ (beyond \/ kept[Precision] = 1)
         IN  [sig |-> IF round_up THEN Increment[kept] ELSE kept,
              exp |-> exp + (Len(sig) - Precision)]

\* Long division: the first Precision + 1 significant bits of the quotient
\* whose bits so far are sig (exp: the exponent of the last bit produced),
\* rounded.
DivideBits[sig \in Seq(Bit), remainder \in Nat, divisor \in Nat, exp \in Int] ==
    IF Len(sig) = Precision + 1
    THEN RoundToPrecision[sig, exp, remainder # 0]
    ELSE LET bit == (2 * remainder) \div divisor
         IN  DivideBits[IF sig = <<>> /\ bit = 0 THEN <<>> ELSE Append(sig, bit),
                        (2 * remainder) % divisor, divisor, exp - 1]

\* a / b for integers a > 0, b > 0, as a float.
FloatDivide[a \in Nat, b \in Nat] == DivideBits[BitsOf[a \div b], a % b, b, 0]

\* bits * k + carry, exactly.
MultiplyBits[bits \in Seq(Bit), k \in Nat, carry \in Nat] ==
    IF bits = <<>> THEN BitsOf[carry]
    ELSE LET t == bits[Len(bits)] * k + carry
         IN  Append(MultiplyBits[SubSeq(bits, 1, Len(bits) - 1), k, t \div 2], t % 2)

\* x * k for a float x and an integer k > 0, as a float.
FloatTimesInt[x \in FloatValues, k \in Nat] ==
    RoundToPrecision[MultiplyBits[x.sig, k, 0], x.exp, FALSE]

\* int(x): the digits before the binary point.
IntOf[x \in FloatValues] ==
    IF x.exp >= 0 THEN ValueOf[x.sig \o [i \in 1..x.exp |-> 0]]
    ELSE ValueOf[SubSeq(x.sig, 1, Len(x.sig) + x.exp)]

(***************************************************************************)
(* LightcurveDatabase.get_ratio_enforced_dataset                           *)
(*                                                                         *)
(* The ratio is drawn from the floats num / den with den a power of two,   *)
(* which are exact: ratio * negative_count is then exact as well, and the  *)
(* comparison of positive_count / negative_count with the ratio is the     *)
(* comparison of the exact quotient.  (1 / ratio) * positive_count rounds  *)
(* twice.                                                                  *)
(***************************************************************************)
\* The training dataset of a class: elements (file path, [label]).
LabelledDataset(count, label) == [i \in 1..count |-> <<i, <<label>>>>]

Ratios == [given : {TRUE}, num : 1..MaxRatio, den : {1, 2}]

\* positive_to_negative_data_ratio = None
NoRatio == [given |-> FALSE, num |-> 0, den |-> 1]

\* existing_ratio < positive_to_negative_data_ratio
ExistingRatioIsLess(positive_count, negative_count, ratio) ==
    positive_count * ratio.den < ratio.num * negative_count

\* int(positive_to_negative_data_ratio * negative_count)
DesiredNumberOfPositiveExamples(ratio, negative_count) ==
    (ratio.num * negative_count) \div ratio.den

\* int((1 / positive_to_negative_data_ratio) * positive_count)
DesiredNumberOfNegativeExamples(ratio, positive_count) ==
    IntOf[FloatTimesInt[FloatDivide[ratio.den, ratio.num], positive_count]]

GetRatioEnforcedDataset(positive, negative, ratio) ==
    IF ~ratio.given THEN Concatenate(positive, negative)
    ELSE IF ExistingRatioIsLess(Len(positive), Len(negative), ratio)
    THEN Concatenate(
             RepeatDatasetToSize(positive,
                 DesiredNumberOfPositiveExamples(ratio, Len(negative))),
             negative)
    ELSE Concatenate(
             positive,
             RepeatDatasetToSize(negative,
                 DesiredNumberOfNegativeExamples(ratio, Len(positive))))

InitGetRatioEnforcedDataset ==
    /\ op = "get_ratio_enforced_dataset"
    /\ pc = "call"
    /\ self = None
    /\ \E p \in 0..MaxPositive, n \in 0..MaxNegative, r \in Ratios \cup {NoRatio} :
          args = [positive_training_dataset |-> LabelledDataset(p, 1),
                  negative_training_dataset |-> LabelledDataset(n, 0),
                  positive_to_negative_data_ratio |-> r]
    /\ ret = None
    /\ retrying = None
    /\ Observations = AstroqueryDefaults

\* No ratio asked for: the datasets are concatenated as they are.
get_ratio_enforced_dataset_none ==
    /\ pc = "call" /\ op = "get_ratio_enforced_dataset"
    /\ ~args.positive_to_negative_data_ratio.given
    /\ ret' = GetRatioEnforcedDataset(args.positive_training_dataset,
                                      args.negative_training_dataset, NoRatio)
    /\ pc' = "return"
    /\ UNCHANGED <<op, self, args, retrying, Observations>>

get_ratio_enforced_dataset ==
    /\ pc = "call" /\ op = "get_ratio_enforced_dataset"
    /\ args.positive_to_negative_data_ratio.given
    /\ Len(args.positive_training_dataset) > 0
    /\ Len(args.negative_training_dataset) > 0
    /\ ret' = GetRatioEnforcedDataset(args.positive_training_dataset,
                                      args.negative_training_dataset,
                                      args.positive_to_negative_data_ratio)
    /\ pc' = "return"
    /\ UNCHANGED <<op, self, args, retrying, Observations>>

\* No negative example: positive_count / negative_count divides by zero.  No
\* positive example: the existing ratio 0 is less than the ratio asked for and
\* repeat_dataset_to_size divides by the size of the empty positive dataset.
get_ratio_enforced_dataset_zero_division ==
    /\ pc = "call" /\ op = "get_ratio_enforced_dataset"
    /\ args.positive_to_negative_data_ratio.given
    /\ \/ Len(args.negative_training_dataset) = 0
       \/ Len(args.positive_training_dataset) = 0
    /\ ret' = "ZeroDivisionError"
    /\ pc' = "raise"
    /\ UNCHANGED <<op, self, args, retrying, Observations>>

NextGetRatioEnforcedDataset ==
    \/ get_ratio_enforced_dataset_none
    \/ get_ratio_enforced_dataset
    \/ get_ratio_enforced_dataset_zero_division

SpecGetRatioEnforcedDataset ==
    InitGetRatioEnforcedDataset /\ [][NextGetRatioEnforcedDataset]_vars

\* The positive (label 1) and the negative (label 0) elements of a dataset.
ElementsLabelled(dataset, label) ==
    LET HasLabel(element) == element[2] = <<label>>
    IN  SelectSeq(dataset, HasLabel)

\* C2: with P > 0 positive and N > 0 negative training examples and a ratio
\* r > 0, the result of get_ratio_enforced_dataset holds floor(r*N) positives
\* and the N negatives unchanged if P/N < r, and otherwise the P positives
\* unchanged and floor(P/r) negatives; all positives precede all negatives;
\* with r None the result is the two datasets concatenated unchanged.
C2_RatioEnforced ==
    (/\ op = "get_ratio_enforced_dataset" /\ pc # "call"
     /\ Len(args.positive_training_dataset) > 0
     /\ Len(args.negative_training_dataset) > 0) =>
        LET positive == args.positive_training_dataset
            negative == args.negative_training_dataset
            P == Len(positive)
            N == Len(negative)
            r == args.positive_to_negative_data_ratio
            positives == ElementsLabelled(ret, 1)
            negatives == ElementsLabelled(ret, 0)
        IN  /\ pc = "return"
            /\ ret = positives \o negatives
            /\ ~r.given => ret = positive \o negative
            /\ (r.given /\ P * r.den < r.num * N) =>
                   /\ Len(positives) = (r.num * N) \div r.den
                   /\ negatives = negative
            /\ (r.given /\ P * r.den >= r.num * N) =>
                   /\ positives = positive
                   /\ Len(negatives) = (P * r.den) \div r.num

(***************************************************************************)
(* LightcurveDatabase.shuffle_in_unison and                                *)
(* LightcurveDatabase.get_training_and_validation_datasets_for_file_paths  *)
(***************************************************************************)
\* np.random.permutation(n): one of the orderings of the indexes of an array
\* of length n.
PermutationsOf(n) == {p \in [1..n -> 1..n] : \A i, j \in 1..n : p[i] = p[j] => i = j}

\* a[indexes]: numpy's indexing of an array by an array of indexes.
TakeIndexes(a, indexes) == [i \in 1..Len(indexes) |-> a[indexes[i]]]

\* A plausible bug: only the first array shuffled.
ShuffleFirstOnly(a, b, indexes) == <<TakeIndexes(a, indexes), b>>

\* The pair shuffle_in_unison returns for the permutation the generator drew.
ShuffleInUnison(a, b, indexes) == <<TakeIndexes(a, indexes), TakeIndexes(b, indexes)>>

\* tf.data.Dataset.zip of the file paths and of the labels, each label with
\* the dimension np.expand_dims(labels, axis=-1) added.
ZipDataset(example_paths, labels) ==
    [i \in 1..Len(example_paths) |-> <<example_paths[i], <<labels[i]>>>>]

\* A plausible bug: the size of the validation dataset rounded up.
ValidationDatasetSizeCeil(number_of_labels) == (number_of_labels + 4) \div 5

\* int(len(labels) * validation_dataset_size_ratio) for the default ratio, the
\* float 0.2 (the float nearest to 1/5).
ValidationDatasetSize(number_of_labels) ==
    IntOf[FloatTimesInt[FloatDivide[1, 5], number_of_labels]]

\* The pair (training_dataset, validation_dataset) returned.
GetTrainingAndValidationDatasets(example_paths, label, indexes) ==
    LET labels == [i \in 1..Len(example_paths) |-> label]
        shuffled == ShuffleInUnison(example_paths, labels, indexes)
        dataset == ZipDataset(shuffled[1], shuffled[2])
        validation_dataset_size == ValidationDatasetSize(Len(shuffled[2]))
    IN  [training_dataset |-> Skip(dataset, validation_dataset_size),
         validation_dataset |-> Take(dataset, validation_dataset_size)]

\* The example paths of a directory: distinct, numbered in the order listed.
ExamplePathLists == {[i \in 1..n |-> i] : n \in 0..MaxExamplePaths}

InitGetTrainingAndValidationDatasets ==
    /\ op = "get_training_and_validation_datasets_for_file_paths"
    /\ pc = "call"
    /\ self = None
    /\ args \in [example_paths : ExamplePathLists, label : {0, 1}]
    /\ ret = None
    /\ retrying = None
    /\ Observations = AstroqueryDefaults

get_training_and_validation_datasets_for_file_paths ==
    /\ pc = "call" /\ op = "get_training_and_validation_datasets_for_file_paths"
    /\ \E indexes \in PermutationsOf(Len(args.example_paths)) :
          ret' = GetTrainingAndValidationDatasets(args.example_paths, args.label, indexes)
    /\ pc' = "return"
    /\ UNCHANGED <<op, self, args, retrying, Observations>>

NextGetTrainingAndValidationDatasets ==
    get_training_and_validation_datasets_for_file_paths

SpecGetTrainingAndValidationDatasets ==
    InitGetTrainingAndValidationDatasets /\ [][NextGetTrainingAndValidationDatasets]_vars

\* How many elements of a dataset are for the file path.
CountPath(dataset, path) == Cardinality({i \in 1..Len(dataset) : dataset[i][1] = path})

\* C6: for a list of n distinct paths and validation ratio 0.2 the validation
\* dataset holds exactly floor(0.2*n) paths and the training dataset the
\* remaining n - floor(0.2*n); every input path is in exactly one of the two,
\* exactly once; every element carries the label passed to the call.
C6_Partition ==
    (op = "get_training_and_validation_datasets_for_file_paths" /\ pc # "call") =>
        LET n == Len(args.example_paths)
            training == ret.training_dataset
            validation == ret.validation_dataset
        IN  /\ pc = "return"
            /\ Len(validation) = n \div 5
            /\ Len(training) = n - (n \div 5)
            /\ \A i \in 1..n :
                  CountPath(training, args.example_paths[i])
                      + CountPath(validation, args.example_paths[i]) = 1
            /\ \A i \in 1..Len(training) : training[i][2] = <<args.label>>
            /\ \A i \in 1..Len(validation) : validation[i][2] = <<args.label>>

\* Five paths were shuffled out of their order and one of them went to the
\* validation dataset.
C6_Witness_Split ==
    /\ op = "get_training_and_validation_datasets_for_file_paths" /\ pc = "return"
    /\ Len(args.example_paths) = 5
    /\ Len(ret.validation_dataset) = 1
    /\ ret.validation_dataset[1][1] = 3
    /\ ret.training_dataset[1][1] = 5

(***************************************************************************)
(* LightcurveDatabase.normalize                                            *)
(*                                                                         *)
(* Flux values are integers; the values normalize computes from them are   *)
(* kept in thousandths, rounded down (1000 stands for 1.0).                *)
(***************************************************************************)
\* np.min and np.max of a non-empty array.
ArrayMin(array) == CHOOSE v \in {array[i] : i \in 1..Len(array)} :
                       \A i \in 1..Len(array) : v <= array[i]

ArrayMax(array) == CHOOSE v \in {array[i] : i \in 1..Len(array)} :
                       \A i \in 1..Len(array) : v >= array[i]

\* np.log1p(d) = ln(1 + d) in thousandths, for d = 0, 1, 2, ...
Log1pThousandths == <<0, 693, 1098, 1386, 1609, 1791, 1945, 2079, 2197, 2302, 2397>>

Log1p(d) == Log1pThousandths[d + 1]

\* a / b of two values in thousandths, in thousandths.
Quotient(a, b) == (a * 1000) \div b

\* lightcurve -= np.min(lightcurve)
SubtractMin(lightcurve) ==
    [i \in 1..Len(lightcurve) |-> lightcurve[i] - ArrayMin(lightcurve)]

\* A plausible bug: the maximum taken before the logarithm.
ScaleByStaleMax(shifted) ==
    LET logged == [i \in 1..Len(shifted) |-> Log1p(shifted[i])]
        array_max == ArrayMax(shifted)
    IN  IF array_max # 0
        THEN [i \in 1..Len(logged) |-> Quotient(logged[i], array_max)]
        ELSE logged

\* lightcurve = np.log1p(lightcurve); array_max = np.max(lightcurve);
\* if array_max != 0: lightcurve /= array_max
LogAndScaleByMax(shifted) ==
    LET logged == [i \in 1..Len(shifted) |-> Log1p(shifted[i])]
        array_max == ArrayMax(logged)
    IN  IF array_max # 0
        THEN [i \in 1..Len(logged) |-> Quotient(logged[i], array_max)]
        ELSE logged

Normalize(lightcurve) == LogAndScaleByMax(SubtractMin(lightcurve))

\* Fluxes of either sign.
SignedLightcurves == Arrays((0 - MaxFlux)..MaxFlux, 0, MaxLen)

\* before: the argument as the caller passed it (normalize subtracts the
\* minimum in place, in the caller's array).
InitNormalize ==
    /\ op = "normalize"
    /\ pc = "call"
    /\ self = None
    /\ \E lightcurve \in SignedLightcurves :
          args = [lightcurve |-> lightcurve, before |-> lightcurve]
    /\ ret = None
    /\ retrying = None
    /\ Observations = AstroqueryDefaults

normalize ==
    /\ pc = "call" /\ op = "normalize"
    /\ Len(args.lightcurve) > 0
    /\ args' = [args EXCEPT !.lightcurve = SubtractMin(args.lightcurve)]
    /\ ret' = Normalize(args.lightcurve)
    /\ pc' = "return"
    /\ UNCHANGED <<op, self, retrying, Observations>>

\* np.min of an empty array: ValueError.
normalize_empty ==
    /\ pc = "call" /\ op = "normalize"
    /\ Len(args.lightcurve) = 0
    /\ ret' = "ValueError"
    /\ pc' = "raise"
    /\ UNCHANGED <<op, self, args, retrying, Observations>>

NextNormalize ==
    \/ normalize
    \/ normalize_empty

SpecNormalize == InitNormalize /\ [][NextNormalize]_vars

IsConstant(array) == \A i, j \in 1..Len(array) : array[i] = array[j]

\* C3: normalize maps every non-empty lightcurve to values from 0 to 1: the
\* minimum of the result is 0, the maximum is 1 whenever the input is not
\* constant, x[i] <= x[j] implies out[i] <= out[j], and a constant input
\* yields all zeros (no division by zero).
C3_Normalized ==
    (op = "normalize" /\ pc # "call" /\ Len(args.before) > 0) =>
        LET x == args.before
            n == Len(x)
        IN  /\ pc = "return"
            /\ Len(ret) = n
            /\ ArrayMin(ret) = 0
            /\ \A i \in 1..n : 0 <= ret[i] /\ ret[i] <= 1000
            /\ ~IsConstant(x) => ArrayMax(ret) = 1000
            /\ \A i, j \in 1..n : x[i] <= x[j] => ret[i] <= ret[j]
            /\ IsConstant(x) => \A i \in 1..n : ret[i] = 0

\* A lightcurve with three different values, the smallest negative, was
\* normalized to 0, a value in between, and 1.
C3_Witness_ThreeLevels ==
    /\ op = "normalize" /\ pc = "return"
    /\ Len(args.before) = 3
    /\ args.before[1] < 0
    /\ ret[1] = 0 /\ 0 < ret[2] /\ ret[2] < 1000 /\ ret[3] = 1000

(***************************************************************************)
(* TessTransitLightcurveLabelPerTimeStepDatabase.generate_label            *)
(*                                                                         *)
(* Times are counted in half hours, 48 to the day, so that the epoch       *)
(* offset, the conversion of the duration from hours to days and its half  *)
(* are exact.  A row of meta_data_frame holds lightcurve_path,             *)
(* transit_epoch (BJD, in half hours), transit_duration (in hours) and     *)
(* transit_period (in half hours; 0 for a single transit).                 *)
(***************************************************************************)
\* 2457000 days, the offset of BJD to BTJD.
BjdOffset == 2457000 * 48

\* planet_meta_data['transit_duration'] / 24: hours to days.
HoursToDays(hours) == (hours * 48) \div 24

MetaDataRows ==
    [lightcurve_path : 1..2,
     transit_epoch : {BjdOffset + e : e \in (0 - MaxEpoch)..MaxEpoch},
     transit_duration : 1..MaxDurationHours,
     transit_period : 0..MaxPeriod]

\* A plausible bug: the phase taken without the shift by half a duration.
PlanetIsTransitingUnshifted(planet_meta_data, time) ==
    LET transit_tess_epoch == planet_meta_data.transit_epoch - BjdOffset
        epoch_time == time - transit_tess_epoch
        transit_duration == HoursToDays(planet_meta_data.transit_duration)
        transit_period == planet_meta_data.transit_period
        half_duration == transit_duration \div 2
    IN  IF transit_period = 0
        THEN (0 - half_duration) < epoch_time /\ epoch_time < half_duration
        ELSE (epoch_time % transit_period) < transit_duration

\* The body of the loop over the planets, for one time step.
PlanetIsTransiting(planet_meta_data, time) ==
    LET transit_tess_epoch == planet_meta_data.transit_epoch - BjdOffset
        epoch_time == time - transit_tess_epoch
        transit_duration == HoursToDays(planet_meta_data.transit_duration)
        transit_period == planet_meta_data.transit_period
        half_duration == transit_duration \div 2
    IN  IF transit_period = 0
        THEN (0 - half_duration) < epoch_time /\ epoch_time < half_duration
        ELSE ((epoch_time + half_duration) % transit_period) < transit_duration

\* any_planet_is_transiting after the planets of rows index..Len(rows) were
\* visited, starting from the labels so_far.
RECURSIVE LabelOverPlanets(_, _, _, _)
LabelOverPlanets(rows, index, times, so_far) ==
    IF index > Len(rows) THEN so_far
    ELSE LabelOverPlanets(rows, index + 1, times,
             [i \in 1..Len(times) |->
                 so_far[i] \/ PlanetIsTransiting(rows[index], times[i])])

\* meta_data_frame[meta_data_frame['lightcurve_path'] == example_path]
RowsOfPath(meta_data_frame, example_path) ==
    LET IsOfPath(row) == row.lightcurve_path = example_path
    IN  SelectSeq(meta_data_frame, IsOfPath)

GenerateLabel(meta_data_frame, example_path, times) ==
    LabelOverPlanets(RowsOfPath(meta_data_frame, example_path), 1, times,
                     [i \in 1..Len(times) |-> FALSE])

\* The time steps of a lightcurve: every half hour from -MaxTime to MaxTime.
TimeSteps == [i \in 1..(2 * MaxTime + 1) |-> i - 1 - MaxTime]

InitGenerateLabel ==
    /\ op = "generate_label"
    /\ pc = "call"
    /\ self \in [meta_data_frame : Arrays(MetaDataRows, 0, MaxPlanets)]
    /\ args = [example_path |-> 1, times |-> TimeSteps]
    /\ ret = None
    /\ retrying = None
    /\ Observations = SetAstroqueryLimits(AstroqueryDefaults)

generate_label ==
    /\ pc = "call" /\ op = "generate_label"
    /\ ret' = GenerateLabel(self.meta_data_frame, args.example_path, args.times)
    /\ pc' = "return"
    /\ UNCHANGED <<op, self, args, retrying, Observations>>

NextGenerateLabel == generate_label

SpecGenerateLabel == InitGenerateLabel /\ [][NextGenerateLabel]_vars

\* The transit numbers that can matter for the time steps of the model.
TransitNumbers ==
    LET most == MaxTime + MaxEpoch + MaxDurationHours + 1
    IN  (0 - most)..most

\* The claim's condition for time t to be in transit of the planet of a row,
\* with e the epoch in BTJD, d the duration in days and p the period.
InTransit(row, t) ==
    LET e == row.transit_epoch - BjdOffset
        d == (row.transit_duration * 48) \div 24
        p == row.transit_period
    IN  IF p > 0
        THEN \E k \in TransitNumbers :
                 2 * (e + k * p) - d <= 2 * t /\ 2 * t < 2 * (e + k * p) + d
        ELSE (0 - d) < 2 * (t - e) /\ 2 * (t - e) < d

\* C8: generate_label returns one boolean per time step, true exactly when
\* some planet recorded for the lightcurve path is transiting at that time:
\* for period p > 0 iff e + k*p - d/2 <= t < e + k*p + d/2 for an integer k of
\* either sign, for period 0 iff -d/2 < t - e < d/2; the planets of a path
\* are combined with OR and a path with no planet rows yields all false.
C8_Label ==
    (op = "generate_label" /\ pc # "call") =>
        /\ pc = "return"
        /\ Len(ret) = Len(args.times)
        /\ \A i \in 1..Len(args.times) :
              ret[i] = (\E j \in 1..Len(self.meta_data_frame) :
                           /\ self.meta_data_frame[j].lightcurve_path = args.example_path
                           /\ InTransit(self.meta_data_frame[j], args.times[i]))

\* Two planets of the path, one periodic with its epoch after the first time
\* steps and one with a single transit, each transiting at a time step where
\* the other is not.
C8_Witness_TwoPlanets ==
    /\ op = "generate_label" /\ pc = "return"
    /\ Len(self.meta_data_frame) = 2
    /\ self.meta_data_frame[1].lightcurve_path = 1
    /\ self.meta_data_frame[2].lightcurve_path = 1
    /\ self.meta_data_frame[1].transit_period = 3
    /\ self.meta_data_frame[1].transit_duration = 1
    /\ self.meta_data_frame[2].transit_period = 0
    /\ \E i, j \in 1..Len(args.times) :
          /\ ret[i] /\ ret[j]
          /\ args.times[i] < self.meta_data_frame[1].transit_epoch - BjdOffset - 2
          /\ ~PlanetIsTransiting(self.meta_data_frame[2], args.times[i])
          /\ ~PlanetIsTransiting(self.meta_data_frame[1], args.times[j])
    /\ \E i \in 1..Len(args.times) : ~ret[i]

(***************************************************************************)
(* TessTransitLightcurveLabelPerTimeStepDatabase                           *)
(*     .load_fluxes_and_times_from_fits_file                               *)
(*                                                                         *)
(* A value of a FITS column is NaN or a number.  The lightcurve table of   *)
(* the file (extension 1) has one row per measurement, so its SAP_FLUX and *)
(* TIME columns are equally long.                                          *)
(***************************************************************************)
NaN == [nan |-> TRUE, value |-> 0]

Number(v) == [nan |-> FALSE, value |-> v]

\* np.isnan
IsNan(x) == x.nan

FitsValues == {NaN} \cup {Number(v) : v \in 1..MaxFitsValue}

FitsTables ==
    UNION {[SAP_FLUX : [1..n -> FitsValues], TIME : [1..n -> FitsValues]] :
              n \in 0..MaxSamples}

\* np.argwhere(np.isnan(array)): the indexes of the NaN values.
ArgwhereNan(array) == {i \in 1..Len(array) : IsNan(array[i])}

\* A plausible bug: only the NaN fluxes are looked for.
NanIndexesOfFluxes(fluxes, times) == ArgwhereNan(fluxes)

\* np.union1d of the NaN indexes of the two arrays.
NanIndexes(fluxes, times) == ArgwhereNan(fluxes) \cup ArgwhereNan(times)

\* np.delete(array, indexes): the array without the values at the indexes,
\* built from its first index values on.
RECURSIVE Delete(_, _, _)
Delete(array, indexes, index) ==
    IF index > Len(array) THEN <<>>
    ELSE IF index \in indexes THEN Delete(array, indexes, index + 1)
    ELSE <<array[index]>> \o Delete(array, indexes, index + 1)

\* The pair (fluxes, times) returned for the lightcurve table of the file.
LoadFluxesAndTimes(lightcurve) ==
    LET fluxes == lightcurve.SAP_FLUX
        times == lightcurve.TIME
        nan_indexes == NanIndexes(fluxes, times)
    IN  [fluxes |-> Delete(fluxes, nan_indexes, 1),
         times |-> Delete(times, nan_indexes, 1)]

\* lightcurve: the table fits.open(example_path) finds in the file.
InitLoadFluxesAndTimes ==
    /\ op = "load_fluxes_and_times_from_fits_file"
    /\ pc = "call"
    /\ self = None
    /\ args \in [example_path : {1}, lightcurve : FitsTables]
    /\ ret = None
    /\ retrying = None
    /\ Observations = AstroqueryDefaults

load_fluxes_and_times_from_fits_file ==
    /\ pc = "call" /\ op = "load_fluxes_and_times_from_fits_file"
    /\ ret' = LoadFluxesAndTimes(args.lightcurve)
    /\ pc' = "return"
    /\ UNCHANGED <<op, self, args, retrying, Observations>>

NextLoadFluxesAndTimes == load_fluxes_and_times_from_fits_file

SpecLoadFluxesAndTimes == InitLoadFluxesAndTimes /\ [][NextLoadFluxesAndTimes]_vars

\* C9: load_fluxes_and_times_from_fits_file removes index i from both arrays
\* iff fluxes[i] is NaN or times[i] is NaN: the returned arrays have equal
\* length, contain no NaN, keep the original order, and each returned flux is
\* still paired with the time it was measured at.
C9_NanRemoved ==
    (op = "load_fluxes_and_times_from_fits_file" /\ pc # "call") =>
        LET fluxes == args.lightcurve.SAP_FLUX
            times == args.lightcurve.TIME
            Kept(i) == ~IsNan(fluxes[i]) /\ ~IsNan(times[i])
            \* The position in the result of the measurement at a kept index.
            Position(i) == Cardinality({k \in 1..i : Kept(k)})
        IN  /\ pc = "return"
            /\ Len(ret.fluxes) = Len(ret.times)
            /\ Len(ret.fluxes) = Cardinality({i \in 1..Len(fluxes) : Kept(i)})
            /\ \A j \in 1..Len(ret.fluxes) : ~IsNan(ret.fluxes[j]) /\ ~IsNan(ret.times[j])
            /\ \A i \in 1..Len(fluxes) :
                  Kept(i) => /\ ret.fluxes[Position(i)] = fluxes[i]
                             /\ ret.times[Position(i)] = times[i]

\* A NaN flux and, at another index, a NaN time were removed from between
\* measurements that were kept.
C9_Witness_BothKinds ==
    /\ op = "load_fluxes_and_times_from_fits_file" /\ pc = "return"
    /\ Len(args.lightcurve.SAP_FLUX) = 3
    /\ IsNan(args.lightcurve.SAP_FLUX[1]) /\ ~IsNan(args.lightcurve.TIME[1])
    /\ IsNan(args.lightcurve.TIME[2]) /\ ~IsNan(args.lightcurve.SAP_FLUX[2])
    /\ Len(ret.fluxes) = 1
    /\ ret.fluxes[1] # ret.times[1]

(***************************************************************************)
(* TessLightCurve: sky_coord, tess_magnitude and                           *)
(* get_ffi_time_series_from_tess_cut, each wrapped by                      *)
(* @retry(retry_on_exception=is_common_mast_connection_error).             *)
(*                                                                         *)
(* The decorator runs the loop of retrying.Retrying.call with its default  *)
(* stop (never) and wait (none): call the function and keep the outcome as *)
(* the attempt; if the attempt is not rejected, return its value or raise  *)
(* its exception; otherwise count the attempt and call again.              *)
(***************************************************************************)
CatalogueOperations == {"sky_coord", "tess_magnitude", "get_ffi_time_series_from_tess_cut"}

\* The exceptions a call of the external services can end with.
Exceptions == {"AstroQueryTimeoutError", "ConnectionError", "IndexError", "KeyError"}

\* is_common_mast_connection_error(exception)
IsCommonMastConnectionError(exception) ==
    exception \in {"AstroQueryTimeoutError", "ConnectionError"}

\* The rows of the TESS input catalogue a query can answer with.
TicRows == [ra : 1..MaxCoordinate, dec : 1..MaxCoordinate, Tmag : 1..MaxCoordinate]

\* What the downloads of a cutout can answer with (None: nothing found).
TargetPixelFiles == {"target_pixel_file", None}

\* The value the body of the operation computes from what the service
\* answered (a row of the catalogue, or a target pixel file).
BodyResult(operation, answer) ==
    IF operation = "sky_coord" THEN [ra |-> answer.ra, dec |-> answer.dec]
    ELSE IF operation = "tess_magnitude" THEN answer.Tmag
    ELSE answer

\* The outcome of an attempt (retrying.Attempt).
Attempt(value, has_exception) == [value |-> value, has_exception |-> has_exception]

\* A plausible bug: @retry without retry_on_exception retries on any exception.
ShouldRejectAnyException(attempt) == attempt.has_exception

\* Retrying.should_reject: an exception is rejected, and the call retried, iff
\* retry_on_exception accepts it; a result is never rejected.
ShouldReject(attempt) ==
    attempt.has_exception /\ IsCommonMastConnectionError(attempt.value)

\* A plausible bug: @retry(stop_max_attempt_number=3).
StopAfterThirdAttempt(attempt_number) == attempt_number >= 3

\* Retrying.stop: the default, never_stop.
Stop(attempt_number) == FALSE

InitCatalogue ==
    /\ op \in CatalogueOperations
    /\ pc = "call"
    /\ self = [tic_id |-> 1, sector |-> 1, tic_row |-> <<>>]
    /\ args = None
    /\ ret = None
    /\ retrying = [attempt_number |-> 1, attempt |-> Attempt(None, FALSE)]
    /\ Observations = AstroqueryDefaults

\* An attempt of sky_coord or tess_magnitude with the row of the catalogue
\* already kept in _tic_row: no query is sent.
attempt_with_tic_row ==
    /\ pc = "call" /\ op \in {"sky_coord", "tess_magnitude"}
    /\ self.tic_row # <<>>
    /\ retrying' = [retrying EXCEPT !.attempt = Attempt(BodyResult(op, self.tic_row[1]), FALSE)]
    /\ pc' = "attempted"
    /\ UNCHANGED <<op, self, args, ret, Observations>>

\* An attempt of sky_coord or tess_magnitude whose query of the catalogue is
\* answered: get_tic_row keeps the row.
attempt_queries_tic_row ==
    /\ pc = "call" /\ op \in {"sky_coord", "tess_magnitude"}
    /\ self.tic_row = <<>>
    /\ \E row \in TicRows :
          /\ self' = [self EXCEPT !.tic_row = <<row>>]
          /\ retrying' = [retrying EXCEPT !.attempt = Attempt(BodyResult(op, row), FALSE)]
    /\ pc' = "attempted"
    /\ UNCHANGED <<op, args, ret, Observations>>

\* An attempt of get_ffi_time_series_from_tess_cut whose search and download
\* are answered.
attempt_downloads_cutout ==
    /\ pc = "call" /\ op = "get_ffi_time_series_from_tess_cut"
    /\ \E target_pixel_file \in TargetPixelFiles :
          retrying' = [retrying EXCEPT !.attempt =
                          Attempt(BodyResult(op, target_pixel_file), FALSE)]
    /\ pc' = "attempted"
    /\ UNCHANGED <<op, self, args, ret, Observations>>

\* An attempt whose call of the service raises.  (A service that has failed
\* with a connection error MaxFailures times in a row fails no more.)
attempt_raises ==
    /\ pc = "call" /\ op \in CatalogueOperations
    /\ op \in {"sky_coord", "tess_magnitude"} => self.tic_row = <<>>
    /\ \E exception \in Exceptions :
          /\ IsCommonMastConnectionError(exception) =>
                 retrying.attempt_number <= MaxFailures
          /\ retrying' = [retrying EXCEPT !.attempt = Attempt(exception, TRUE)]
    /\ pc' = "attempted"
    /\ UNCHANGED <<op, self, args, ret, Observations>>

\* The attempt is rejected: once more, unless stop says to give up, and then
\* the exception of the attempt is raised.
retry_rejected ==
    /\ pc = "attempted" /\ op \in CatalogueOperations
    /\ ShouldReject(retrying.attempt)
    /\ IF Stop(retrying.attempt_number)
       THEN /\ ret' = retrying.attempt.value
            /\ pc' = "raise"
            /\ UNCHANGED <<retrying, Observations>>
       ELSE /\ retrying' = [retrying EXCEPT !.attempt_number = @ + 1]
            /\ pc' = "call"
            /\ UNCHANGED <<ret, Observations>>
    /\ UNCHANGED <<op, self, args, Observations>>

\* The attempt is not rejected and holds a result: attempt.get() returns it.
retry_returns ==
    /\ pc = "attempted" /\ op \in CatalogueOperations
    /\ ~ShouldReject(retrying.attempt)
    /\ ~retrying.attempt.has_exception
    /\ ret' = retrying.attempt.value
    /\ pc' = "return"
    /\ UNCHANGED <<op, self, args, retrying, Observations>>

\* The attempt is not rejected and holds an exception: attempt.get() raises it.
retry_raises ==
    /\ pc = "attempted" /\ op \in CatalogueOperations
    /\ ~ShouldReject(retrying.attempt)
    /\ retrying.attempt.has_exception
    /\ ret' = retrying.attempt.value
    /\ pc' = "raise"
    /\ UNCHANGED <<op, self, args, retrying, Observations>>

\* The caller goes on to another catalogue operation of the same light curve
\* (as get_angular_distance_to_variability_photometric_centroid does).
call_operation ==
    /\ pc \in {"return", "raise"} /\ op \in CatalogueOperations
    /\ op' \in CatalogueOperations
    /\ pc' = "call"
    /\ ret' = None
    /\ retrying' = [attempt_number |-> 1, attempt |-> Attempt(None, FALSE)]
    /\ UNCHANGED <<self, args, Observations>>

NextCatalogue ==
    \/ attempt_with_tic_row
    \/ attempt_queries_tic_row
    \/ attempt_downloads_cutout
    \/ attempt_raises
    \/ retry_rejected
    \/ retry_returns
    \/ retry_raises
    \/ call_operation

SpecCatalogue == InitCatalogue /\ [][NextCatalogue]_vars

\* C4: the catalogue operations retry on common MAST connection errors with
\* no limit on the number of attempts: after any number of consecutive
\* failures with such an error, a call of the operation is attempted again,
\* a call that returns returns the value of the attempt that succeeded, and
\* no connection error ever reaches the caller.
C4_ConnectionErrorsRetried ==
    op \in CatalogueOperations =>
        /\ (pc = "attempted" /\ retrying.attempt.has_exception
              /\ IsCommonMastConnectionError(retrying.attempt.value)) =>
               ENABLED retry_rejected
        /\ pc = "call" => /\ retrying.attempt_number >= 1
                          /\ ret = None
        /\ pc = "return" => /\ ~retrying.attempt.has_exception
                            /\ ret = retrying.attempt.value
        /\ pc = "raise" => ~IsCommonMastConnectionError(ret)

\* The service failed MaxFailures times in a row with a connection error and
\* the operation returned the value of the attempt after them.
C4_Witness_ReturnsAfterFailures ==
    /\ op = "tess_magnitude" /\ pc = "return"
    /\ retrying.attempt_number = MaxFailures + 1
    /\ ret = 2

\* C5: only exceptions accepted by is_common_mast_connection_error are
\* retried: an exception of any other kind is raised to the caller on the
\* attempt where it first occurs, and no further attempt is made.
C5_OtherExceptionsPropagate ==
    [][(/\ op \in CatalogueOperations /\ pc = "attempted"
        /\ retrying.attempt.has_exception
        /\ ~IsCommonMastConnectionError(retrying.attempt.value)) =>
            /\ pc' = "raise"
            /\ ret' = retrying.attempt.value
            /\ retrying' = retrying]_vars

\* After a connection error was retried, the second attempt failed with
\* another kind of exception, which was raised.
C5_Witness_RaisedOnSecondAttempt ==
    /\ op = "sky_coord" /\ pc = "raise"
    /\ retrying.attempt_number = 2
    /\ ret = "IndexError"

(***************************************************************************)
(* qusi infer_session and infer_phase                                      *)
(*                                                                         *)
(* A light curve of an infer dataset is a number, the model a function     *)
(* from light curves to predictions, applied to each row of a batch.       *)
(***************************************************************************)
LightCurves == 1..MaxLightCurve

Models == [LightCurves -> 0..1]

\* The batches DataLoader(infer_dataset, batch_size=batch_size) yields: the
\* dataset in order, batch_size light curves at a time, the last batch with
\* what is left.
RECURSIVE Batches(_, _)
Batches(infer_dataset, batch_size) ==
    IF infer_dataset = <<>> THEN <<>>
    ELSE <<Take(infer_dataset, batch_size)>>
             \o Batches(Skip(infer_dataset, batch_size), batch_size)

\* model(input_features_on_device): one prediction per row of the batch.
Forward(model, input_features) ==
    [i \in 1..Len(input_features) |-> model[input_features[i]]]

\* np.concatenate(arrays, axis=0) of at least one array.
RECURSIVE ConcatenateArrays(_)
ConcatenateArrays(arrays) ==
    IF Len(arrays) = 1 THEN arrays[1]
    ELSE arrays[1] \o ConcatenateArrays(Tail(arrays))

\* infer_phase, for a dataloader that yields at least one batch.
InferPhase(dataloader, model) ==
    LET batches_of_predicted_targets ==
            [b \in 1..Len(dataloader) |-> Forward(model, dataloader[b])]
    IN  ConcatenateArrays(batches_of_predicted_targets)

\* The list of results infer_session builds.
InferSession(infer_datasets, model, batch_size) ==
    LET infer_dataloaders ==
            [d \in 1..Len(infer_datasets) |-> Batches(infer_datasets[d], batch_size)]
    IN  [d \in 1..Len(infer_dataloaders) |-> InferPhase(infer_dataloaders[d], model)]

InitInferSession ==
    /\ op = "infer_session"
    /\ pc = "call"
    /\ self = None
    /\ args \in [infer_datasets : Arrays(Arrays(LightCurves, 0, MaxInferLength),
                                         0, MaxInferDatasets),
                 model : Models,
                 batch_size : 1..MaxBatchSize]
    /\ ret = None
    /\ retrying = None
    /\ Observations = AstroqueryDefaults

\* Every dataloader yields a batch.
infer_session ==
    /\ pc = "call" /\ op = "infer_session"
    /\ \A d \in 1..Len(args.infer_datasets) : Len(args.infer_datasets[d]) > 0
    /\ ret' = InferSession(args.infer_datasets, args.model, args.batch_size)
    /\ pc' = "return"
    /\ UNCHANGED <<op, self, args, retrying, Observations>>

\* The dataloader of an empty dataset yields no batch, and infer_phase gives
\* np.concatenate an empty list: ValueError.
infer_session_empty_dataset ==
    /\ pc = "call" /\ op = "infer_session"
    /\ \E d \in 1..Len(args.infer_datasets) : Len(args.infer_datasets[d]) = 0
    /\ ret' = "ValueError"
    /\ pc' = "raise"
    /\ UNCHANGED <<op, self, args, retrying, Observations>>

NextInferSession ==
    \/ infer_session
    \/ infer_session_empty_dataset

SpecInferSession == InitInferSession /\ [][NextInferSession]_vars

\* C10: infer_session returns exactly one result array per dataset of
\* infer_datasets, in the order of that list, and for a dataset of any size
\* and any batch_size >= 1 the rows of its array are the model's predictions
\* for the dataset's light curves in dataset order, one row per light curve.
C10_OneRowPerLightCurve ==
    (op = "infer_session" /\ pc # "call") =>
        /\ pc = "return"
        /\ Len(ret) = Len(args.infer_datasets)
        /\ \A d \in 1..Len(args.infer_datasets) :
              /\ Len(ret[d]) = Len(args.infer_datasets[d])
              /\ \A i \in 1..Len(args.infer_datasets[d]) :
                    ret[d][i] = args.model[args.infer_datasets[d][i]]

(***************************************************************************)
(* PyMapper.map_to_dataset and map_py_function_to_dataset                  *)
(*                                                                         *)
(* The map function runs in a pool of number_of_parallel_calls worker      *)
(* processes behind tf.data.Dataset.map(num_parallel_calls=...).  The      *)
(* elements are handed to the pool in input order, at most                 *)
(* number_of_parallel_calls at a time; the workers finish in any order;    *)
(* the mapped dataset yields the result of an element once it is finished  *)
(* and every element before it was yielded.  `self` holds the map function *)
(* and the pool: the positions in flight, the result of every finished     *)
(* position (<<>> while unfinished) and the order of completion; `ret` is  *)
(* the list of the elements the mapped dataset yielded.                    *)
(***************************************************************************)
\* The map functions of the tests.
MapFunctions == {"add_one", "add_one_and_add_two"}

\* add_one(element) and add_one_and_add_two(element): the tuple of outputs.
ApplyMapFunction(map_function, element) ==
    IF map_function = "add_one" THEN <<element + 1>>
    ELSE <<element + 1, element + 2>>

\* tf.data.Dataset.from_tensor_slices(...): the datasets given to the mapper.
MapDatasets == Arrays(0..MaxElement, 0, MaxElements)

\* The positions whose result is finished and not yet yielded.
FinishedNotYielded(mapper, yielded) ==
    {i \in 1..Len(mapper.results) : mapper.results[i] # <<>>} \ {yielded[k] : k \in 1..Len(yielded)}

\* A plausible bug: results yielded as they complete, the earliest finished
\* position first.
PositionToYieldAsCompleted(mapper, yielded) ==
    LET ready == FinishedNotYielded(mapper, yielded)
    IN  IF ready = {} THEN 0
        ELSE mapper.completed[CHOOSE k \in 1..Len(mapper.completed) :
                 /\ mapper.completed[k] \in ready
                 /\ \A j \in 1..(k - 1) : mapper.completed[j] \notin ready]

\* The position the mapped dataset yields next: the one after the last
\* yielded, once it is finished (0: nothing to yield yet).
PositionToYield(mapper, yielded) ==
    IF Len(yielded) + 1 \in FinishedNotYielded(mapper, yielded) THEN Len(yielded) + 1 ELSE 0

InitMapToDataset ==
    /\ op \in {"map_to_dataset", "map_py_function_to_dataset"}
    /\ pc = "call"
    /\ \E map_function \in MapFunctions :
          self = [map_function |-> map_function,
                  number_of_parallel_calls |-> NumberOfParallelCalls,
                  in_flight |-> {}, results |-> <<>>, completed |-> <<>>, yielded |-> <<>>]
    /\ args \in [dataset : MapDatasets]
    /\ ret = None
    /\ retrying = None
    /\ Observations = AstroqueryDefaults

\* PyMapper.map_to_dataset: the mapped dataset, nothing computed yet.
map_to_dataset ==
    /\ pc = "call" /\ op = "map_to_dataset"
    /\ self' = [self EXCEPT !.results = [i \in 1..Len(args.dataset) |-> <<>>]]
    /\ ret' = <<>>
    /\ pc' = "mapping"
    /\ UNCHANGED <<op, args, retrying, Observations>>

\* map_py_function_to_dataset: PyMapper(map_function, ...).map_to_dataset(dataset).
map_py_function_to_dataset ==
    /\ pc = "call" /\ op = "map_py_function_to_dataset"
    /\ self' = [self EXCEPT !.results = [i \in 1..Len(args.dataset) |-> <<>>]]
    /\ ret' = <<>>
    /\ pc' = "mapping"
    /\ UNCHANGED <<op, args, retrying, Observations>>

\* The next element of the input is handed to an idle worker.
worker_starts ==
    /\ pc = "mapping"
    /\ Cardinality(self.in_flight) < self.number_of_parallel_calls
    /\ LET position == Cardinality(self.in_flight) + Len(self.completed) + 1
       IN  /\ position <= Len(args.dataset)
           /\ self' = [self EXCEPT !.in_flight = @ \cup {position}]
    /\ UNCHANGED <<pc, op, args, ret, retrying, Observations>>

\* Any of the busy workers finishes its element.
worker_finishes ==
    /\ pc = "mapping"
    /\ \E position \in self.in_flight :
          self' = [self EXCEPT
                      !.in_flight = @ \ {position},
                      !.results[position] = <<ApplyMapFunction(self.map_function, args.dataset[position])>>,
                      !.completed = Append(@, position)]
    /\ UNCHANGED <<pc, op, args, ret, retrying, Observations>>

\* The mapped dataset yields its next element.
dataset_yields ==
    /\ pc = "mapping"
    /\ LET position == PositionToYield(self, self.yielded)
       IN  /\ position # 0
           /\ ret' = Append(ret, self.results[position][1])
           /\ self' = [self EXCEPT !.yielded = Append(@, position)]
    /\ UNCHANGED <<pc, op, args, retrying, Observations>>

\* Every element was yielded: the iteration over the mapped dataset ends.
dataset_ends ==
    /\ pc = "mapping"
    /\ Len(self.yielded) = Len(args.dataset)
    /\ pc' = "return"
    /\ UNCHANGED <<op, self, args, ret, retrying, Observations>>

NextMapToDataset ==
    \/ map_to_dataset
    \/ map_py_function_to_dataset
    \/ worker_starts
    \/ worker_finishes
    \/ dataset_yields
    \/ dataset_ends

SpecMapToDataset == InitMapToDataset /\ [][NextMapToDataset]_vars

\* C11: with 4 parallel calls the mapped dataset yields, for every element of
\* the input, exactly one output equal to the map function applied to it, in
\* the order of the input whichever worker finishes first; with two outputs
\* both output streams are in input order and aligned.
C11_MappedInInputOrder ==
    /\ pc \in {"mapping", "return"} =>
          /\ Len(ret) <= Len(args.dataset)
          /\ \A i \in 1..Len(ret) :
                /\ ret[i][1] = args.dataset[i] + 1
                /\ Len(ret[i]) = IF self.map_function = "add_one" THEN 1 ELSE 2
                /\ self.map_function = "add_one_and_add_two" => ret[i][2] = args.dataset[i] + 2
    /\ pc = "return" => Len(ret) = Len(args.dataset)

\* Four elements, two outputs each, the last element finished first and the
\* first one last.
C11_Witness_FinishedOutOfOrder ==
    /\ pc = "return"
    /\ self.map_function = "add_one_and_add_two"
    /\ Len(args.dataset) = 4
    /\ args.dataset[1] # args.dataset[4]
    /\ self.completed[1] = 4
    /\ self.completed[4] = 1
    /\ Len(ret) = 4

(***************************************************************************)
(* The TESS data objects: TessTransitLightcurveLabelPerTimeStepDatabase    *)
(* and the TessDataInterface it uses.                                      *)
(*                                                                         *)
(* A process starts with no object (pc = "new") and Observations as some   *)
(* other code left it; a constructor makes the object (pc = "ready"), an   *)
(* operation is called on it (pc = "return", with `op`, `args` and `ret`   *)
(* of the call) and control returns to the caller (pc = "ready").  `self`  *)
(* holds the class of the object and, for the database, what its data      *)
(* directory holds on disk.  A string is a sequence of characters.         *)
(***************************************************************************)
\* The values Observations has before the construction.
ObservationsBefore ==
    [TIMEOUT : {600 * k : k \in 1..MaxTimeout}, PAGESIZE : {10000 * k : k \in 1..MaxPageSize}]

\* TessDataInterface.__init__: the limits a new TessDataInterface sets.
TessDataInterfaceLimits(observations) ==
    [observations EXCEPT !.TIMEOUT = 1200, !.PAGESIZE = 10000]

\* What the data directory holds: the directories that exist (the data
\* directory itself, lightcurves, data_validations) and the .fits files of the
\* lightcurve directory.
Disks ==
    {disk \in [directories : SUBSET {"data", "lightcurves", "data_validations"},
               lightcurves : SUBSET (1..MaxFiles)] :
        /\ disk.directories # {} => "data" \in disk.directories
        /\ disk.lightcurves # {} => "lightcurves" \in disk.directories}

\* create_data_directories: three mkdir(parents=True, exist_ok=True).
CreateDataDirectories(disk) ==
    [disk EXCEPT !.directories = {"data", "lightcurves", "data_validations"}]

\* clear_data_directory: shutil.rmtree if the directory exists, then
\* create_data_directories.
ClearDataDirectory(disk) ==
    LET removed == IF "data" \in disk.directories
                   THEN [directories |-> {}, lightcurves |-> {}]
                   ELSE disk
    IN  CreateDataDirectories(removed)

\* str.split(separator) for a separator of one character.
RECURSIVE Split(_, _)
Split(string, separator) ==
    IF \A i \in 1..Len(string) : string[i] # separator THEN <<string>>
    ELSE LET first == CHOOSE i \in 1..Len(string) :
                         /\ string[i] = separator
                         /\ \A j \in 1..(i - 1) : string[j] # separator
         IN  <<SubSeq(string, 1, first - 1)>> \o Split(SubSeq(string, first + 1, Len(string)), separator)

DigitCharacters == <<"0", "1", "2", "3", "4", "5", "6", "7", "8", "9">>

DigitValue(character) == (CHOOSE k \in 1..10 : DigitCharacters[k] = character) - 1

\* int(string) for a string of decimal digits.
RECURSIVE ParseInt(_)
ParseInt(string) ==
    IF Len(string) = 0 THEN 0
    ELSE 10 * ParseInt(SubSeq(string, 1, Len(string) - 1)) + DigitValue(string[Len(string)])

\* The obs_id 'tess<timestamp>-s<NNNN>-<tic id>-<...>' of a single-sector
\* observation, for the four characters of NNNN.
SingleSectorObsId(sector_field) ==
    <<"t", "e", "s", "s", "2", "0", "-", "s">> \o sector_field \o <<"-", "0", "7", "-", "0", "1", "-", "s">>

\* The obs_ids given to get_sector_from_single_sector_obs_id, and those of
\* the rows of a table of observations.
SingleSectorObsIds == {SingleSectorObsId(field) : field \in [1..4 -> {"0", "1", "5"}]}
TableObsIds == {SingleSectorObsId(field) : field \in [1..4 -> {"0", "1"}]}

\* TessDataInterface.get_sector_from_single_sector_obs_id.
GetSectorFromSingleSectorObsId(obs_id) == ParseInt(Tail(Split(obs_id, "-")[2]))

\* TessDataInterface.get_tic_id_from_single_sector_obs_id.
GetTicIdFromSingleSectorObsId(obs_id) == ParseInt(Split(obs_id, "-")[3])

\* A data frame is the list of its rows, a row a record of its columns.
SingleSectorObservations == Arrays([obs_id : TableObsIds, target_name : {1}], 0, MaxObservations)

\* data_frame[column] = values: the column added to (or replaced in) every row.
WithColumn(data_frame, column, values) ==
    [i \in 1..Len(data_frame) |->
        [c \in DOMAIN data_frame[i] \cup {column} |->
            IF c = column THEN values[i] ELSE data_frame[i][c]]]

\* A plausible bug: the sector of the first row given to every row.
AddSectorColumnOfFirstRow(observations) ==
    WithColumn(observations, "sector",
               [i \in 1..Len(observations) |-> GetSectorFromSingleSectorObsId(observations[1].obs_id)])

\* observations['sector'] = observations['obs_id'].map(get_sector_from_single_sector_obs_id)
AddSectorColumn(observations) ==
    WithColumn(observations, "sector",
               [i \in 1..Len(observations) |-> GetSectorFromSingleSectorObsId(observations[i].obs_id)])

\* The tables given to get_largest_sector_range: the index of the data frame
\* tells the rows apart.
MultiSectorObservations ==
    UNION {{[i \in 1..n |-> [index |-> i,
                             target_name |-> columns[i][1],
                             sector_range_length |-> columns[i][2]]] :
               columns \in [1..n -> (1..MaxTargets) \X (1..MaxRange)]} :
           n \in 0..MaxRangeRows}

\* A plausible bug: the sort ascending.
InAscendingOrder(earlier, later) == earlier.sector_range_length <= later.sector_range_length

\* sort_values('sector_range_length', ascending=False): may this row stand
\* before that one.
InSortOrder(earlier, later) == earlier.sector_range_length >= later.sector_range_length

\* The orders sort_values can give the rows: the sort is not stable, rows of
\* equal sector_range_length come in any order.
SortValues(data_frame) ==
    {TakeIndexes(data_frame, indexes) : indexes \in
        {p \in PermutationsOf(Len(data_frame)) :
            \A i, j \in 1..Len(data_frame) :
                i < j => InSortOrder(data_frame[p[i]], data_frame[p[j]])}}

\* drop_duplicates(['target_name']): the first row of every target_name.
RECURSIVE DropDuplicates(_)
DropDuplicates(data_frame) ==
    IF Len(data_frame) = 0 THEN <<>>
    ELSE LET front == SubSeq(data_frame, 1, Len(data_frame) - 1)
             last == data_frame[Len(data_frame)]
         IN  IF \E j \in 1..Len(front) : front[j].target_name = last.target_name
             THEN DropDuplicates(front)
             ELSE Append(DropDuplicates(front), last)

InitTessData ==
    /\ pc = "new"
    /\ op = None
    /\ self = None
    /\ args = None
    /\ ret = None
    /\ retrying = None
    /\ Observations \in ObservationsBefore

\* TessDataInterface().
tess_data_interface_init ==
    /\ pc = "new"
    /\ self' = [class |-> "TessDataInterface"]
    /\ Observations' = TessDataInterfaceLimits(Observations)
    /\ op' = "__init__"
    /\ pc' = "ready"
    /\ UNCHANGED <<args, ret, retrying>>

\* TessTransitLightcurveLabelPerTimeStepDatabase(): the data directory is in
\* any state on disk.
tess_transit_database_init ==
    /\ pc = "new"
    /\ \E disk \in Disks :
          self' = [class |-> "TessTransitLightcurveLabelPerTimeStepDatabase",
                   meta_data_frame |-> None,
                   data_validation_dictionary |-> None,
                   disk |-> disk]
    /\ Observations' = SetAstroqueryLimits(Observations)
    /\ op' = "__init__"
    /\ pc' = "ready"
    /\ UNCHANGED <<args, ret, retrying>>

create_data_directories ==
    /\ pc = "ready" /\ self.class = "TessTransitLightcurveLabelPerTimeStepDatabase"
    /\ self' = [self EXCEPT !.disk = CreateDataDirectories(@)]
    /\ op' = "create_data_directories"
    /\ args' = <<>>
    /\ ret' = None
    /\ pc' = "return"
    /\ UNCHANGED <<retrying, Observations>>

clear_data_directory ==
    /\ pc = "ready" /\ self.class = "TessTransitLightcurveLabelPerTimeStepDatabase"
    /\ self' = [self EXCEPT !.disk = ClearDataDirectory(@)]
    /\ op' = "clear_data_directory"
    /\ args' = <<>>
    /\ ret' = None
    /\ pc' = "return"
    /\ UNCHANGED <<retrying, Observations>>

\* list(self.lightcurve_directory.glob('*.fits')), in the order of the directory.
get_lightcurve_file_paths ==
    /\ pc = "ready" /\ self.class = "TessTransitLightcurveLabelPerTimeStepDatabase"
    /\ \E indexes \in PermutationsOf(Cardinality(self.disk.lightcurves)) :
          \E paths \in [1..Cardinality(self.disk.lightcurves) -> self.disk.lightcurves] :
             /\ \A i, j \in DOMAIN paths : paths[i] = paths[j] => i = j
             /\ ret' = TakeIndexes(paths, indexes)
    /\ op' = "get_lightcurve_file_paths"
    /\ args' = <<>>
    /\ pc' = "return"
    /\ UNCHANGED <<self, retrying, Observations>>

\* The static method makes a TessDataInterface of its own, adds the column to
\* the data frame it was given and returns that data frame; `before` keeps the
\* data frame as it was given.
add_sector_column_based_on_single_sector_obs_id ==
    /\ pc = "ready" /\ self.class = "TessTransitLightcurveLabelPerTimeStepDatabase"
    /\ \E observations \in SingleSectorObservations :
          /\ args' = [observations |-> AddSectorColumn(observations), before |-> observations]
          /\ ret' = AddSectorColumn(observations)
    /\ Observations' = TessDataInterfaceLimits(Observations)
    /\ op' = "add_sector_column_based_on_single_sector_obs_id"
    /\ pc' = "return"
    /\ UNCHANGED <<self, retrying>>

get_largest_sector_range ==
    /\ pc = "ready" /\ self.class = "TessTransitLightcurveLabelPerTimeStepDatabase"
    /\ \E multi_sector_observations \in MultiSectorObservations :
          /\ args' = [multi_sector_observations |-> multi_sector_observations]
          /\ \E range_sorted_observations \in SortValues(multi_sector_observations) :
                ret' = DropDuplicates(range_sorted_observations)
    /\ op' = "get_largest_sector_range"
    /\ pc' = "return"
    /\ UNCHANGED <<self, retrying, Observations>>

get_sector_from_single_sector_obs_id ==
    /\ pc = "ready" /\ self.class = "TessDataInterface"
    /\ \E obs_id \in SingleSectorObsIds :
          /\ args' = [obs_id |-> obs_id]
          /\ ret' = GetSectorFromSingleSectorObsId(obs_id)
    /\ op' = "get_sector_from_single_sector_obs_id"
    /\ pc' = "return"
    /\ UNCHANGED <<self, retrying, Observations>>

get_tic_id_from_single_sector_obs_id ==
    /\ pc = "ready" /\ self.class = "TessDataInterface"
    /\ \E obs_id \in SingleSectorObsIds :
          /\ args' = [obs_id |-> obs_id]
          /\ ret' = GetTicIdFromSingleSectorObsId(obs_id)
    /\ op' = "get_tic_id_from_single_sector_obs_id"
    /\ pc' = "return"
    /\ UNCHANGED <<self, retrying, Observations>>

\* Control is back at the caller, the object ready for the next call.
operation_returns ==
    /\ pc = "return"
    /\ pc' = "ready"
    /\ op' = None
    /\ args' = None
    /\ ret' = None
    /\ UNCHANGED <<self, retrying, Observations>>

NextTessData ==
    \/ tess_data_interface_init
    \/ tess_transit_database_init
    \/ create_data_directories
    \/ clear_data_directory
    \/ get_lightcurve_file_paths
    \/ add_sector_column_based_on_single_sector_obs_id
    \/ get_largest_sector_range
    \/ get_sector_from_single_sector_obs_id
    \/ get_tic_id_from_single_sector_obs_id
    \/ operation_returns

SpecTessData == InitTessData /\ [][NextTessData]_vars

\* C12: constructing a TessDataInterface or a
\* TessTransitLightcurveLabelPerTimeStepDatabase sets Observations.TIMEOUT to
\* 1200 and Observations.PAGESIZE to 10000 whatever they were before, and no
\* operation called on the object afterwards changes them.
C12_AstroqueryLimits ==
    pc # "new" => Observations.TIMEOUT = 1200 /\ Observations.PAGESIZE = 10000

\* A database was constructed on a complete data directory and
\* get_largest_sector_range, called on it, returned a row for every target.
C12_Witness_AfterOperations ==
    /\ pc = "return"
    /\ op = "get_largest_sector_range"
    /\ self.class = "TessTransitLightcurveLabelPerTimeStepDatabase"
    /\ self.disk.directories = {"data", "lightcurves", "data_validations"}
    /\ self.disk.lightcurves = {}
    /\ Len(ret) = MaxTargets

\* The value of the NNNN field of 'tess<timestamp>-s<NNNN>-...', read off the
\* four characters after 'tess20-s'.
SectorDigit(character) ==
    CASE character = "0" -> 0 [] character = "1" -> 1 [] character = "5" -> 5

SectorOfObsId(obs_id) ==
    1000 * SectorDigit(obs_id[9]) + 100 * SectorDigit(obs_id[10])
        + 10 * SectorDigit(obs_id[11]) + SectorDigit(obs_id[12])

\* C13: get_sector_from_single_sector_obs_id returns the integer value of the
\* zero-padded NNNN field of the obs_id; add_sector_column_based_on_single_sector_obs_id
\* gives every row the 'sector' of its own obs_id and leaves the number of
\* rows and the other columns as they were.
C13_SectorColumn ==
    /\ (pc = "return" /\ op = "get_sector_from_single_sector_obs_id") =>
          ret = SectorOfObsId(args.obs_id)
    /\ (pc = "return" /\ op = "add_sector_column_based_on_single_sector_obs_id") =>
          /\ Len(ret) = Len(args.before)
          /\ args.observations = ret
          /\ \A i \in 1..Len(ret) :
                /\ DOMAIN ret[i] = DOMAIN args.before[i] \cup {"sector"}
                /\ ret[i].sector = SectorOfObsId(args.before[i].obs_id)
                /\ \A column \in DOMAIN args.before[i] : ret[i][column] = args.before[i][column]

\* Two rows of different sectors, 11 and 100.
C13_Witness_TwoSectors ==
    /\ pc = "return"
    /\ op = "add_sector_column_based_on_single_sector_obs_id"
    /\ Len(ret) = 2
    /\ ret[1].sector = 11
    /\ ret[2].sector = 100
    /\ SubSeq(args.before[1].obs_id, 8, 12) = <<"s", "0", "0", "1", "1">>

\* C16: get_largest_sector_range returns exactly one row for every
\* target_name of the input, a row of the input whose sector_range_length is
\* the largest among the rows of that target; it returns no other row.
C16_LargestSectorRange ==
    (pc = "return" /\ op = "get_largest_sector_range") =>
        LET input == args.multi_sector_observations
        IN  /\ \A i \in 1..Len(input) :
                  Cardinality({k \in 1..Len(ret) : ret[k].target_name = input[i].target_name}) = 1
            /\ \A k \in 1..Len(ret) :
                  /\ \E i \in 1..Len(input) : input[i] = ret[k]
                  /\ \A j \in 1..Len(input) :
                        input[j].target_name = ret[k].target_name =>
                            input[j].sector_range_length <= ret[k].sector_range_length

\* Two rows of one target, the longer range second, and a row of another.
C16_Witness_TwoTargets ==
    /\ pc = "return"
    /\ op = "get_largest_sector_range"
    /\ Len(args.multi_sector_observations) = 3
    /\ args.multi_sector_observations[1] = [index |-> 1, target_name |-> 1, sector_range_length |-> 1]
    /\ args.multi_sector_observations[2] = [index |-> 2, target_name |-> 1, sector_range_length |-> 2]
    /\ args.multi_sector_observations[3].target_name = 2
    /\ Len(ret) = 2
    /\ ret[1].index = 2

(***************************************************************************)
(* LightcurveDatabase.shuffle_in_unison                                    *)
(***************************************************************************)
InitShuffleInUnison ==
    /\ op = "shuffle_in_unison"
    /\ pc = "call"
    /\ self = None
    /\ args \in [a : Arrays(1..MaxPaths, 0, MaxShuffleLength),
                 b : Arrays(0..MaxLabel, 0, MaxShuffleLength)]
    /\ ret = None
    /\ retrying = None
    /\ Observations = AstroqueryDefaults

\* b has a value at every index of the permutation of len(a).
shuffle_in_unison ==
    /\ pc = "call" /\ op = "shuffle_in_unison"
    /\ Len(args.b) >= Len(args.a)
    /\ \E indexes \in PermutationsOf(Len(args.a)) :
          ret' = ShuffleInUnison(args.a, args.b, indexes)
    /\ pc' = "return"
    /\ UNCHANGED <<op, self, args, retrying, Observations>>

\* b is shorter than a: np.array(b)[indexes] raises IndexError.
shuffle_in_unison_index_error ==
    /\ pc = "call" /\ op = "shuffle_in_unison"
    /\ Len(args.b) < Len(args.a)
    /\ ret' = "IndexError"
    /\ pc' = "raise"
    /\ UNCHANGED <<op, self, args, retrying, Observations>>

NextShuffleInUnison ==
    \/ shuffle_in_unison
    \/ shuffle_in_unison_index_error

SpecShuffleInUnison == InitShuffleInUnison /\ [][NextShuffleInUnison]_vars

\* C14: for a and b of equal length n both outputs have length n and there is
\* one permutation of the indexes, each index used exactly once, that gives
\* both outputs: out_a[i] = a[j] and out_b[i] = b[j] for the same j.
C14_ShuffledInUnison ==
    (pc = "return" /\ Len(args.a) = Len(args.b)) =>
        LET n == Len(args.a)
        IN  /\ Len(ret[1]) = n
            /\ Len(ret[2]) = n
            /\ \E j \in [1..n -> 1..n] :
                  /\ \A k \in 1..n : \E i \in 1..n : j[i] = k
                  /\ \A i \in 1..n : ret[1][i] = args.a[j[i]] /\ ret[2][i] = args.b[j[i]]

\* Three distinct values with labels that differ, moved out of place.
C14_Witness_Moved ==
    /\ pc = "return"
    /\ args.a = <<1, 2, 3>>
    /\ args.b = <<0, 1, 1>>
    /\ ret[1] = <<2, 3, 1>>
    /\ ret[2] = <<1, 1, 0>>

(***************************************************************************)
(* LightcurveDatabase.remove_random_values                                 *)
(***************************************************************************)
\* A plausible bug: the stop of the range included.
RandRangeInclusive(stop) == 0..stop

\* random.randrange(stop): the integers 0 <= x < stop.
RandRange(stop) == 0..(stop - 1)

\* The sets of indexes an array np.random.randint(0, length, size=size) can
\* hold (the draws are independent, an index may be drawn more than once).
RandomIndexSets(length, size) ==
    {indexes \in SUBSET RandInt(0, length) :
        IF size = 0 THEN indexes = {}
        ELSE 1 <= Cardinality(indexes) /\ Cardinality(indexes) <= size}

\* np.delete(lightcurve, random_indexes), the indexes counted from 0.
RemoveValues(lightcurve, random_indexes) ==
    Delete(lightcurve, {index + 1 : index \in random_indexes}, 1)

\* The lightcurve 1, 2, ..., n: every value tells its place.
CountingLightcurves == {[i \in 1..n |-> i] : n \in 0..MaxRemoveLength}

InitRemoveRandomValues ==
    /\ op = "remove_random_values"
    /\ pc = "call"
    /\ self = None
    /\ args \in [lightcurve : Lightcurves \cup CountingLightcurves]
    /\ ret = None
    /\ retrying = None
    /\ Observations = AstroqueryDefaults

remove_random_values ==
    /\ pc = "call" /\ op = "remove_random_values"
    /\ \E values_to_remove \in RandRange(MaxValuesToRemove) :
          /\ Len(args.lightcurve) = 0 => values_to_remove = 0
          /\ \E random_indexes \in RandomIndexSets(Len(args.lightcurve), values_to_remove) :
                ret' = RemoveValues(args.lightcurve, random_indexes)
    /\ pc' = "return"
    /\ UNCHANGED <<op, self, args, retrying, Observations>>

\* An empty lightcurve: np.random.randint(0, 0, ...) raises ValueError (for a
\* size of 0 numpy raises or returns an empty array, depending on its version).
remove_random_values_empty ==
    /\ pc = "call" /\ op = "remove_random_values"
    /\ Len(args.lightcurve) = 0
    /\ ret' = "ValueError"
    /\ pc' = "raise"
    /\ UNCHANGED <<op, self, args, retrying, Observations>>

NextRemoveRandomValues ==
    \/ remove_random_values
    \/ remove_random_values_empty

SpecRemoveRandomValues == InitRemoveRandomValues /\ [][NextRemoveRandomValues]_vars

\* Is the first sequence what is left of the second after removing values.
RECURSIVE IsSubsequence(_, _)
IsSubsequence(sub, sequence) ==
    IF Len(sub) = 0 THEN TRUE
    ELSE IF Len(sequence) = 0 THEN FALSE
    ELSE IF Head(sub) = Head(sequence) THEN IsSubsequence(Tail(sub), Tail(sequence))
    ELSE IsSubsequence(sub, Tail(sequence))

\* C15: for an input of length n >= 1 fewer than 10 values are removed: the
\* result has between max(0, n-9) and n values, each one a value of the input,
\* in the order they had in the input.
C15_FewerThanTenRemoved ==
    (pc = "return" /\ Len(args.lightcurve) >= 1) =>
        LET n == Len(args.lightcurve)
        IN  /\ Len(ret) <= n
            /\ Len(ret) >= n - 9
            /\ \A i \in 1..Len(ret) : \E j \in 1..n : ret[i] = args.lightcurve[j]
            /\ IsSubsequence(ret, args.lightcurve)

\* Nine of ten values removed.
C15_Witness_NineRemoved ==
    /\ pc = "return"
    /\ Len(args.lightcurve) = 10
    /\ ret = <<4>>

(***************************************************************************)
(* LightcurveDatabase.preprocess_and_augment_lightcurve                    *)
(***************************************************************************)
\* np.roll(lightcurve, shift): the value at index i moves to index i + shift,
\* around the end.
RollLightcurve(lightcurve, shift) ==
    [i \in 1..Len(lightcurve) |-> lightcurve[((i - 1 - shift) % Len(lightcurve)) + 1]]

\* make_uniform_length for the start the random generator drew (used by the
\* clipping branch only).
MakeUniformLength(lightcurve, time_steps, start_slice) ==
    IF Len(lightcurve) > time_steps
    THEN ClipToLength(lightcurve, time_steps, start_slice)
    ELSE RepeatToLength(lightcurve, time_steps)

\* np.expand_dims(lightcurve, axis=-1): every value in a channel of its own.
ExpandDims(lightcurve) == [i \in 1..Len(lightcurve) |-> <<lightcurve[i]>>]

\* The sets of indexes remove_random_values can draw for a lightcurve of the length.
RemovableIndexSets(length) ==
    UNION {RandomIndexSets(length, values_to_remove) : values_to_remove \in RandRange(MaxValuesToRemove)}

\* The starts make_uniform_length can draw (0 stands for no draw: the padding branch).
StartSlices(length, time_steps) ==
    IF length > time_steps THEN RandInt(0, length - time_steps) ELSE {0}

\* The steps of preprocess_and_augment_lightcurve after remove_random_values
\* left a lightcurve that is not empty.
AugmentAndNormalize(removed, time_steps, shift, start_slice) ==
    LET rolled == RollLightcurve(removed, shift)
        uniform == MakeUniformLength(rolled, time_steps, start_slice)
    IN  ExpandDims(Normalize(uniform))

\* The shape set_shape_function declares for the lightcurve.
DeclaredShape(database) == <<database.time_steps_per_example, 1>>

InitPreprocessAndAugment ==
    /\ op = "preprocess_and_augment_lightcurve"
    /\ pc = "call"
    /\ self \in [time_steps_per_example : 1..MaxTimeSteps]
    /\ args \in [lightcurve : Arrays(Fluxes, 0, MaxPipelineLength)]
    /\ ret = None
    /\ retrying = None
    /\ Observations = AstroqueryDefaults

\* Every step runs: remove_random_values leaves at least one value.
preprocess_and_augment_lightcurve ==
    /\ pc = "call" /\ op = "preprocess_and_augment_lightcurve"
    /\ \E random_indexes \in RemovableIndexSets(Len(args.lightcurve)) :
          LET removed == RemoveValues(args.lightcurve, random_indexes)
          IN  /\ Len(removed) > 0
              /\ \E shift \in RandInt(0, Len(removed)) :
                    \E start_slice \in StartSlices(Len(removed), self.time_steps_per_example) :
                       ret' = AugmentAndNormalize(removed, self.time_steps_per_example, shift, start_slice)
    /\ pc' = "return"
    /\ UNCHANGED <<op, self, args, retrying, Observations>>

\* The lightcurve is empty, or remove_random_values removes every value of it:
\* np.random.randint(0, 0) raises ValueError, in remove_random_values or in
\* roll_lightcurve.
preprocess_and_augment_lightcurve_raises ==
    /\ pc = "call" /\ op = "preprocess_and_augment_lightcurve"
    /\ \/ Len(args.lightcurve) = 0
       \/ \E random_indexes \in RemovableIndexSets(Len(args.lightcurve)) :
             Len(RemoveValues(args.lightcurve, random_indexes)) = 0
    /\ ret' = "ValueError"
    /\ pc' = "raise"
    /\ UNCHANGED <<op, self, args, retrying, Observations>>

NextPreprocessAndAugment ==
    \/ preprocess_and_augment_lightcurve
    \/ preprocess_and_augment_lightcurve_raises

SpecPreprocessAndAugment == InitPreprocessAndAugment /\ [][NextPreprocessAndAugment]_vars

\* C18: for every lightcurve of n >= 1 values, shorter than, as long as or
\* longer than time_steps_per_example, and every outcome of the random choices,
\* preprocess_and_augment_lightcurve returns an array of shape
\* [time_steps_per_example, 1], the shape set_shape_function declares, and
\* never raises.
C18_ShapeAndNeverRaises ==
    Len(args.lightcurve) >= 1 =>
        /\ pc # "raise"
        /\ pc = "return" =>
              /\ Len(ret) = DeclaredShape(self)[1]
              /\ \A i \in 1..Len(ret) : Len(ret[i]) = DeclaredShape(self)[2]

(***************************************************************************)
(* LightcurveDatabase.load_and_preprocess_example_file                     *)
(*                                                                         *)
(* args.file is the lightcurve the file at the path holds; args.label is   *)
(* <<>> for None and <<label>> for a label.                                *)
(***************************************************************************)
\* str.endswith(suffix).
EndsWith(string, suffix) ==
    /\ Len(string) >= Len(suffix)
    /\ SubSeq(string, Len(string) - Len(suffix) + 1, Len(string)) = suffix

NpySuffix == <<".", "n", "p", "y">>
PklSuffix == <<".", "p", "k", "l">>
FeatherSuffix == <<".", "f", "e", "a", "t", "h", "e", "r">>

\* A plausible bug: the extension looked for anywhere in the path.
HasExtensionAnywhere(file_path_string) ==
    \E first \in 1..Len(file_path_string) : \E last \in first..Len(file_path_string) :
        SubSeq(file_path_string, first, last) \in {NpySuffix, PklSuffix, FeatherSuffix}

\* Is there a loader for the path: np.load, pd.read_pickle or pd.read_feather.
HasKnownExtension(file_path_string) ==
    \/ EndsWith(file_path_string, NpySuffix)
    \/ EndsWith(file_path_string, PklSuffix)
    \/ EndsWith(file_path_string, FeatherSuffix)

\* The paths given: a.npy, a.pkl, a.feather, a.fits, npy, a.npy.gz and a.
ExampleFilePaths ==
    {<<"a">> \o NpySuffix, <<"a">> \o PklSuffix, <<"a">> \o FeatherSuffix,
     <<"a", ".", "f", "i", "t", "s">>, <<"n", "p", "y">>,
     <<"a">> \o NpySuffix \o <<".", "g", "z">>, <<"a">>}

\* What the call returns for the preprocessed lightcurve.
ExampleWithLabel(lightcurve, label) ==
    IF label = <<>> THEN lightcurve ELSE <<lightcurve, label[1]>>

InitLoadAndPreprocess ==
    /\ op = "load_and_preprocess_example_file"
    /\ pc = "call"
    /\ self \in [time_steps_per_example : 1..MaxTimeSteps]
    /\ args \in [file_path : ExampleFilePaths,
                 file : Arrays(Fluxes, 0, MaxFileLength),
                 label : {<<>>, <<0>>, <<1>>}]
    /\ ret = None
    /\ retrying = None
    /\ Observations = AstroqueryDefaults

load_and_preprocess_example_file ==
    /\ pc = "call" /\ op = "load_and_preprocess_example_file"
    /\ HasKnownExtension(args.file_path)
    /\ \E random_indexes \in RemovableIndexSets(Len(args.file)) :
          LET removed == RemoveValues(args.file, random_indexes)
          IN  /\ Len(removed) > 0
              /\ \E shift \in RandInt(0, Len(removed)) :
                    \E start_slice \in StartSlices(Len(removed), self.time_steps_per_example) :
                       ret' = ExampleWithLabel(
                                 AugmentAndNormalize(removed, self.time_steps_per_example, shift, start_slice),
                                 args.label)
    /\ pc' = "return"
    /\ UNCHANGED <<op, self, args, retrying, Observations>>

\* No loader for the path.
load_and_preprocess_example_file_unknown_extension ==
    /\ pc = "call" /\ op = "load_and_preprocess_example_file"
    /\ ~HasKnownExtension(args.file_path)
    /\ ret' = [exception |-> "ValueError", message |-> "Unknown extension when loading data"]
    /\ pc' = "raise"
    /\ UNCHANGED <<op, self, args, retrying, Observations>>

\* The file is loaded and preprocess_and_augment_lightcurve raises.
load_and_preprocess_example_file_preprocess_raises ==
    /\ pc = "call" /\ op = "load_and_preprocess_example_file"
    /\ HasKnownExtension(args.file_path)
    /\ \/ Len(args.file) = 0
       \/ \E random_indexes \in RemovableIndexSets(Len(args.file)) :
             Len(RemoveValues(args.file, random_indexes)) = 0
    /\ ret' = [exception |-> "ValueError", message |-> "low >= high"]
    /\ pc' = "raise"
    /\ UNCHANGED <<op, self, args, retrying, Observations>>

NextLoadAndPreprocess ==
    \/ load_and_preprocess_example_file
    \/ load_and_preprocess_example_file_unknown_extension
    \/ load_and_preprocess_example_file_preprocess_raises

SpecLoadAndPreprocess == InitLoadAndPreprocess /\ [][NextLoadAndPreprocess]_vars

\* The path ends in one of the three extensions, read off its last characters.
OfLoadableKind(path) ==
    \/ Len(path) >= 4 /\ path[Len(path) - 3] = "." /\ path[Len(path) - 2] = "n"
                      /\ path[Len(path) - 1] = "p" /\ path[Len(path)] = "y"
    \/ Len(path) >= 4 /\ path[Len(path) - 3] = "." /\ path[Len(path) - 2] = "p"
                      /\ path[Len(path) - 1] = "k" /\ path[Len(path)] = "l"
    \/ Len(path) >= 8 /\ SubSeq(path, Len(path) - 7, Len(path)) = <<".", "f", "e", "a", "t", "h", "e", "r">>

\* C17: the loader is chosen by the extension (.npy, .pkl, .feather); a path
\* of any other extension raises ValueError and returns no example; a call
\* that returns gives, with a label, the pair (preprocessed lightcurve, the
\* same label) and, with label None, the preprocessed lightcurve alone.
C17_LoaderAndLabel ==
    /\ ~OfLoadableKind(args.file_path) =>
          /\ pc # "return"
          /\ pc = "raise" =>
                ret = [exception |-> "ValueError", message |-> "Unknown extension when loading data"]
    /\ (OfLoadableKind(args.file_path) /\ pc = "raise") =>
          ret.message # "Unknown extension when loading data"
    /\ (pc = "return" /\ args.label # <<>>) =>
          /\ Len(ret) = 2
          /\ ret[2] = args.label[1]
          /\ Len(ret[1]) = self.time_steps_per_example
          /\ \A i \in 1..Len(ret[1]) : Len(ret[1][i]) = 1
    /\ (pc = "return" /\ args.label = <<>>) =>
          /\ Len(ret) = self.time_steps_per_example
          /\ \A i \in 1..Len(ret) : Len(ret[i]) = 1

\* A .feather file of two values with label 1, padded to five time steps.
C17_Witness_PairReturned ==
    /\ pc = "return"
    /\ args.file_path = <<"a", ".", "f", "e", "a", "t", "h", "e", "r">>
    /\ args.label = <<1>>
    /\ args.file = <<0, 2>>
    /\ self.time_steps_per_example = 5
    /\ ret[2] = 1
    /\ ret[1][1] # ret[1][2]


====
